---- MODULE Spec2Model ----
(***************************************************************************)
(* scripts/download_apple_docs.py: the cross-document aggregator           *)
(* (generate_api_complete), the symbol renderer (json_to_markdown) and the *)
(* helpers both use (fetch_json, fetch_child_doc, identifier_to_path,      *)
(* format_declaration, format_child_doc, extract_text_from_content).       *)
(*                                                                         *)
(* Python values are modelled as follows.  A dict is a function whose      *)
(* DOMAIN is its key set, so d.get(k, default) is Get(d, k, default).  A   *)
(* list is a sequence.  An Optional value is a sequence of length 0 (None) *)
(* or 1.  A str is a TLA+ string; comparisons of strings go through the    *)
(* code points of their characters (Ord).                                  *)
(***************************************************************************)
EXTENDS Integers, Sequences, FiniteSets, TLC

(***************************************************************************)
(* Bounds of the explored inputs.                                          *)
(***************************************************************************)
NumFiles == 2
MaxSections == 2
MaxDecls == 2
MaxTopics == 2
MaxIds == 2
MaxFetches == 2

\* The longest list of member records a class section is written from.
MaxMembers == 3

\* The longest inline-content list extract_text_from_content is applied to,
\* before two of them are joined.
MaxLen == 2

(***************************************************************************)
(* Python built-ins.                                                       *)
(***************************************************************************)
None == <<>>

Some(v) == <<v>>

Get(d, k, default) == IF k \in DOMAIN d THEN d[k] ELSE default

StartsWith(s, prefix) ==
    /\ Len(s) >= Len(prefix)
    /\ SubSeq(s, 1, Len(prefix)) = prefix

Upper == "ABCDEFGHIJKLMNOPQRSTUVWXYZ"

Lower == "abcdefghijklmnopqrstuvwxyz"

Digits == "0123456789"

\* ord(c) of a one-character string, for the characters the inputs use.
Ord(c) ==
    IF \E i \in 1..26 : SubSeq(Upper, i, i) = c
    THEN 64 + (CHOOSE i \in 1..26 : SubSeq(Upper, i, i) = c)
    ELSE IF \E i \in 1..26 : SubSeq(Lower, i, i) = c
    THEN 96 + (CHOOSE i \in 1..26 : SubSeq(Lower, i, i) = c)
    ELSE IF \E i \in 1..10 : SubSeq(Digits, i, i) = c
    THEN 47 + (CHOOSE i \in 1..10 : SubSeq(Digits, i, i) = c)
    ELSE IF c = " " THEN 32
    ELSE IF c = "-" THEN 45
    ELSE IF c = "_" THEN 95
    ELSE 0

CodePoints(s) == [i \in 1..Len(s) |-> Ord(SubSeq(s, i, i))]

\* a < b on sequences of code points, as Python compares str.
SeqLess(a, b) ==
    \E k \in 0..Len(a) :
        /\ k <= Len(b)
        /\ \A i \in 1..k : a[i] = b[i]
        /\ \/ k = Len(a) /\ k < Len(b)
           \/ k < Len(a) /\ k < Len(b) /\ a[k + 1] < b[k + 1]

StrLess(a, b) == SeqLess(CodePoints(a), CodePoints(b))

RECURSIVE SortedBy(_, _)
\* The elements of S in ascending order of key, key being a sequence of
\* code points (keys are distinct on the sets this is applied to).
SortedBy(S, key) ==
    IF S = {} THEN <<>>
    ELSE LET m == CHOOSE x \in S :
                      \A y \in S : x = y \/ SeqLess(key[x], key[y])
         IN  <<m>> \o SortedBy(S \ {m}, key)

\* sorted(keys): ascending by str comparison.
Sorted(S) == SortedBy(S, [x \in S |-> CodePoints(x)])

\* c.lower() of a one-character string.
LowerChar(c) ==
    IF \E i \in 1..26 : SubSeq(Upper, i, i) = c
    THEN LET i == CHOOSE j \in 1..26 : SubSeq(Upper, j, j) = c
         IN  SubSeq(Lower, i, i)
    ELSE c

RECURSIVE StrMap(_, _)
\* The string s with the one-character map f applied to every character.
StrMap(s, f) ==
    IF Len(s) = 0 THEN ""
    ELSE f[SubSeq(s, 1, 1)] \o StrMap(SubSeq(s, 2, Len(s)), f)

Chars(s) == {SubSeq(s, i, i) : i \in 1..Len(s)}

\* s.lower()
StrLower(s) == StrMap(s, [c \in Chars(s) |-> LowerChar(c)])

\* s.replace(" ", "-")
SpacesToHyphens(s) == StrMap(s, [c \in Chars(s) |-> IF c = " " THEN "-" ELSE c])

RECURSIVE Join(_, _)
\* sep.join(parts)
Join(parts, sep) ==
    IF parts = <<>> THEN ""
    ELSE IF Len(parts) = 1 THEN parts[1]
    ELSE parts[1] \o sep \o Join(Tail(parts), sep)

\* The backquote character, which a TLA+ string literal cannot hold, is written
\* as a tilde; no other string of the model contains a tilde.
BackQuote == "~"

\* The three backquotes that open and close a fenced code block.
Fence == BackQuote \o BackQuote \o BackQuote

RECURSIVE SeqsUpTo(_, _)
\* All sequences over S of length at most n.
SeqsUpTo(S, n) ==
    IF n = 0 THEN {<<>>}
    ELSE LET shorter == SeqsUpTo(S, n - 1)
         IN  shorter \cup {Append(s, x) : s \in shorter, x \in S}

RECURSIVE SumOver(_, _)
\* sum(f[x] for x in S)
SumOver(f, S) ==
    IF S = {} THEN 0
    ELSE LET x == CHOOSE y \in S : TRUE
         IN  f[x] + SumOver(f, S \ {x})

(***************************************************************************)
(* Module constants of the script.                                         *)
(***************************************************************************)
DOCS_JSON_BASE == "https://developer.apple.com/tutorials/data/documentation"

\* The prefix json_to_markdown and generate_api_complete test before a fetch.
OwnPrefix == "doc://com.apple.screencapturekit"

\* The prefix identifier_to_path requires and strips.
DocPrefix == "doc://com.apple.screencapturekit/documentation/"

(***************************************************************************)
(* Input universe: the JSON values the explored runs draw from.            *)
(***************************************************************************)
IdWidth == "doc://com.apple.screencapturekit/documentation/SCStream/width"

\* Carries OwnPrefix but not DocPrefix.
IdTutorial == "doc://com.apple.screencapturekit/tutorials/intro"

IdForeign == "doc://com.apple.documentation/documentation/CoreMedia/CMTime"

Ids == {IdWidth, IdTutorial, IdForeign}

Titles == {"alpha", "Beta"}

Roles == {"symbol", "collectionGroup", "article"}

\* The middle token has no text.
DeclVar ==
    [tokens |-> <<[kind |-> "keyword", text |-> "var "],
                  [kind |-> "attribute"],
                  [kind |-> "identifier", text |-> "w"]>>]

\* A declaration with no token list.
DeclNoTokens == [languages |-> <<"swift">>]

Decls == {DeclVar, DeclNoTokens}

InlineHi == <<[type |-> "text", text |-> "hi"]>>

ContentSection ==
    [kind |-> "content",
     content |-> <<[type |-> "paragraph", inlineContent |-> InlineHi]>>]

Sections ==
    {[kind |-> "declarations", declarations |-> l] : l \in SeqsUpTo(Decls, MaxDecls)}
    \cup {[kind |-> "declarations"], ContentSection}

Primaries == SeqsUpTo(Sections, MaxSections)

\* metadata of a corpus document: nothing, a title only, or a title and a role.
Metadatas ==
    {<<>>} \cup {[title |-> t] : t \in Titles}
    \cup {[title |-> t, role |-> r] : t \in Titles, r \in Roles}

\* A topic group: titled or not, and one without an identifier list.
TopicGroups ==
    {[title |-> "Properties", identifiers |-> ids] : ids \in SeqsUpTo(Ids, MaxIds)}
    \cup {[identifiers |-> ids] : ids \in SeqsUpTo(Ids, MaxIds)}
    \cup {[title |-> "Properties"]}

MetaProperty == [title |-> "width", symbolKind |-> "property", role |-> "symbol"]

MetaRoleOnly == [title |-> "init", role |-> "symbol"]

\* The JSON object {}.
EmptyDoc == <<>>

\* The documents the retrieval collaborator returns for a child.
ChildDocs ==
    {[metadata |-> MetaProperty, primaryContentSections |-> p] : p \in Primaries}
    \cup {[metadata |-> MetaRoleOnly,
           primaryContentSections |-> <<[kind |-> "declarations", declarations |-> <<DeclVar>>]>>],
          [metadata |-> MetaProperty],
          EmptyDoc}

\* What urlopen/read/decode/json.loads does inside fetch_json: a parsed body,
\* one of the three exceptions fetch_json catches, or any other exception
\* (a read timeout, a body that is not UTF-8).
NetOutcomes ==
    {[kind |-> "ok", body |-> d] : d \in ChildDocs}
    \cup {[kind |-> k, body |-> EmptyDoc] :
             k \in {"http404", "http500", "urlerror", "badjson", "other"}}

(***************************************************************************)
(* Helpers of the script.                                                  *)
(***************************************************************************)
\* bool(v) of an Optional dict: None and {} are falsy.
Truthy(v) == v # None /\ v[1] # EmptyDoc

\* bool(s) of an Optional str: None and "" are falsy.
TruthyStr(s) == s # None /\ s[1] # ""

FormatDeclaration(decl) ==
    LET tokens == Get(decl, "tokens", <<>>)
    IN  Join([i \in 1..Len(tokens) |-> Get(tokens[i], "text", "")], "")

\* Optional path: None when the identifier lacks DocPrefix.
IdentifierToPath(identifier) ==
    IF ~StartsWith(identifier, DocPrefix) THEN None
    ELSE Some(StrLower(SubSeq(identifier, Len(DocPrefix) + 1, Len(identifier))))

\* [raised, value]: value is the Optional dict returned when nothing is raised.
FetchJson(url, net) ==
    IF net.kind = "ok" THEN [raised |-> FALSE, value |-> Some(net.body)]
    ELSE IF net.kind \in {"http404", "http500", "urlerror", "badjson"}
    THEN [raised |-> FALSE, value |-> None]
    ELSE [raised |-> TRUE, value |-> None]

\* identifier_to_path tabulated over the identifiers of the input universe.
PathOf == [identifier \in Ids |-> IdentifierToPath(identifier)]

\* TRUE when fetch_child_doc reaches fetch_json (a network request is made).
UsesNetwork(identifier) == TruthyStr(PathOf[identifier])

FetchChildDoc(identifier, net) ==
    LET path == PathOf[identifier]
    IN  IF ~TruthyStr(path) THEN [raised |-> FALSE, value |-> None]
        ELSE FetchJson(DOCS_JSON_BASE \o "/" \o path[1] \o ".json", net)

(***************************************************************************)
(* State.  The first group is generate_api_complete's: its locals, the     *)
(* accumulated api_by_class and the lines it writes.  log and occ are      *)
(* history variables: the retrieval calls, the pauses and the assignments  *)
(* to api_by_class made so far, and the identifier occurrences met in the  *)
(* current document (the own-namespace ones in generate_api_complete,      *)
(* every one in json_to_markdown).  The                                    *)
(* last group is json_to_markdown's: its arguments data (less the topic    *)
(* sections, which are drawn as the loop reads them) and include_children, *)
(* its local md_lines, its position, the exception it raised and the value *)
(* it returned.  md_plain is a history variable: the lines the same call   *)
(* appends when no member is expanded.                                     *)
(***************************************************************************)
VARIABLES pc, file_idx, title, role, class_decl, members, topics_read,
          topic_title, identifiers, api_by_class, lines, log, occ,
          call, arg, ret,
          r_pc, data, include_children, md_lines, md_plain, r_topics_read,
          r_identifiers, r_exc, r_ret

agg_vars == <<pc, file_idx, title, role, class_decl, members, topics_read,
              topic_title, identifiers, api_by_class, lines>>

hist_vars == <<log, occ>>

\* A helper function applied on its own: its name, its arguments, its result.
fn_vars == <<call, arg, ret>>

render_vars == <<r_pc, data, include_children, md_lines, md_plain, r_topics_read,
                 r_identifiers, r_exc, r_ret>>

vars == <<agg_vars, hist_vars, fn_vars, render_vars>>

(***************************************************************************)
(* generate_api_complete: collecting api_by_class.                         *)
(***************************************************************************)
\* json_file.stem of the i-th file of sorted(JSON_DIR.glob("*.json")).
FileStem(i) == "screencapturekit_" \o SubSeq(Lower, i, i)

RECURSIVE ClassDeclLoop(_, _)
\* The loop over primary that assigns class_decl, started with class_decl = acc.
ClassDeclLoop(primary, acc) ==
    IF primary = <<>> THEN acc
    ELSE LET section == Head(primary)
             decls == Get(section, "declarations", <<>>)
         IN  IF Get(section, "kind", "") = "declarations" /\ decls # <<>>
             THEN ClassDeclLoop(Tail(primary), Some(FormatDeclaration(decls[1])))
             ELSE ClassDeclLoop(Tail(primary), acc)

RECURSIVE ChildMemberLoop(_, _, _, _)
\* The loop over child_primary that appends to members.
ChildMemberLoop(child_primary, child_title, child_role, topic) ==
    IF child_primary = <<>> THEN <<>>
    ELSE LET section == Head(child_primary)
             decls == Get(section, "declarations", <<>>)
             code == FormatDeclaration(decls[1])
             rest == ChildMemberLoop(Tail(child_primary), child_title, child_role, topic)
         IN  IF Get(section, "kind", "") = "declarations" /\ decls # <<>> /\ code # ""
             THEN <<[name |-> child_title, declaration |-> code,
                     kind |-> child_role, topic |-> topic]>> \o rest
             ELSE rest

\* The member records one fetched child document adds.
ChildMembers(child_data, topic) ==
    LET child_meta == Get(child_data, "metadata", <<>>)
    IN  ChildMemberLoop(Get(child_data, "primaryContentSections", <<>>),
                        Get(child_meta, "title", ""),
                        Get(child_meta, "symbolKind", Get(child_meta, "role", "")),
                        topic)

\* RoleAccepted taking every role a document states.
RoleAcceptedIfStated(r) == r # ""

\* role not in ["symbol", "collectionGroup"]
RoleAccepted(r) == r \in {"symbol", "collectionGroup"}

\* Included testing class_decl against None only.
IncludedNotNone(decl, mems) == decl # None \/ mems # <<>>

\* if class_decl or members
Included(decl, mems) == TruthyStr(decl) \/ mems # <<>>

\* log entry of a fetch_child_doc call: the file and the topic group (counted
\* over the pass) it is made for, whether it reaches the network, and whether
\* it returns a document ("ok"), returns nothing ("none") or raises ("raise").
FetchEvent(identifier, result) ==
    [ev |-> "fetch", file |-> file_idx, topic |-> topics_read, id |-> identifier,
     net |-> UsesNetwork(identifier), result |-> result]

\* log entry of a time.sleep call.
SleepEvent ==
    [ev |-> "sleep", file |-> file_idx, topic |-> topics_read, id |-> "",
     net |-> FALSE, result |-> ""]

Calls == Cardinality({i \in 1..Len(log) : log[i].ev = "fetch"})

\* Leaving the body of the for-json_file loop: the next file, nothing pending.
\* role keeps the value the last loaded document gave it.
NextFile ==
    /\ file_idx' = file_idx + 1
    /\ pc' = "load"
    /\ title' = ""
    /\ class_decl' = None
    /\ members' = <<>>
    /\ topic_title' = ""
    /\ identifiers' = <<>>
    /\ occ' = [i \in Ids |-> 0]

\* ExceptClause recording what the document had collected when it failed.
ExceptClauseStores(api, t, decl, mems) ==
    IF TruthyStr(decl) \/ mems # <<>>
    THEN [k \in DOMAIN api \cup {t} |->
            IF k = t THEN [declaration |-> decl, members |-> mems] ELSE api[k]]
    ELSE api

\* Lines 827-828: api_by_class after the except clause, which only prints.
ExceptClause(api, t, decl, mems) == api

\* json.load raises: the except clause reports the file and the loop goes on.
AggLoadError ==
    /\ pc = "load" /\ file_idx <= NumFiles
    /\ api_by_class' = ExceptClause(api_by_class, title, class_decl, members)
    /\ NextFile
    /\ UNCHANGED <<role, topics_read, lines, log, fn_vars, render_vars>>

\* Lines 764-782: load the file, test the role, extract the class declaration.
AggLoad ==
    /\ pc = "load" /\ file_idx <= NumFiles
    /\ \E metadata \in Metadatas, primary \in Primaries :
        LET t == Get(metadata, "title", FileStem(file_idx))
        IN  /\ role' = Get(metadata, "role", "")
            /\ IF ~RoleAccepted(role')
               THEN /\ NextFile
               ELSE /\ title' = t
                    /\ class_decl' = ClassDeclLoop(primary, None)
                    /\ members' = <<>>
                    /\ pc' = "topics"
                    /\ UNCHANGED <<file_idx, topic_title, identifiers, occ>>
    /\ UNCHANGED <<topics_read, api_by_class, lines, log, fn_vars, render_vars>>

\* The loop position after the current identifier: the next identifier of the
\* topic, or the for-topic loop when the topic has no more.
AfterIdentifier(rest) == IF rest = <<>> THEN "topics" ELSE "members"

\* Line 788-789: the for-topic loop takes the next topic group.  topics_read
\* and the calls made so far bound the corpus over the whole pass.
AggTopic ==
    /\ pc = "topics" /\ topics_read < MaxTopics
    /\ \E topic \in TopicGroups :
        LET ids == Get(topic, "identifiers", <<>>)
            own == {i \in 1..Len(ids) : StartsWith(ids[i], OwnPrefix)}
        IN  /\ Calls + Cardinality(own) <= MaxFetches
            /\ topic_title' = Get(topic, "title", "")
            /\ identifiers' = ids
            /\ pc' = AfterIdentifier(ids)
    /\ topics_read' = topics_read + 1
    /\ UNCHANGED <<file_idx, title, role, class_decl, members, api_by_class, lines,
                   hist_vars, fn_vars, render_vars>>

\* Continue with a break in its place: the rest of the topic is given up.
ContinueAsBreak(rest) == "topics"

\* The loop position a continue statement of the for-identifier loop leads to.
Continue(rest) == AfterIdentifier(rest)

\* SkipsFetch with a per-document cache: an identifier already retrieved for
\* the current file is passed over as well.
SkipsFetchCached(identifier) ==
    \/ ~StartsWith(identifier, OwnPrefix)
    \/ \E i \in 1..Len(log) :
          log[i].ev = "fetch" /\ log[i].file = file_idx /\ log[i].id = identifier

\* Line 792: the identifier is passed over without a retrieval call.
SkipsFetch(identifier) == ~StartsWith(identifier, OwnPrefix)

\* Lines 791-819: one iteration of the for-identifier loop.
AggMember ==
    /\ pc = "members"
    /\ LET identifier == Head(identifiers)
           met == IF StartsWith(identifier, OwnPrefix)
                  THEN [occ EXCEPT ![identifier] = @ + 1]
                  ELSE occ
       IN  \E net \in NetOutcomes :
             LET fetched == FetchChildDoc(identifier, net)
             IN  /\ UsesNetwork(identifier) \/ net.kind = "http404"
                 /\ IF SkipsFetch(identifier)
                    THEN \* continue
                         /\ net.kind = "http404"
                         /\ identifiers' = Tail(identifiers)
                         /\ pc' = Continue(Tail(identifiers))
                         /\ occ' = met
                         /\ UNCHANGED <<file_idx, title, class_decl, members,
                                        topic_title, log, api_by_class>>
                    ELSE IF fetched.raised
                    THEN \* the except clause of the file loop
                         /\ api_by_class' =
                              ExceptClause(api_by_class, title, class_decl, members)
                         /\ NextFile
                         /\ log' = Append(log, FetchEvent(identifier, "raise"))
                    ELSE IF ~Truthy(fetched.value)
                    THEN \* continue, before the pause
                         /\ identifiers' = Tail(identifiers)
                         /\ pc' = Continue(Tail(identifiers))
                         /\ occ' = met
                         /\ log' = Append(log, FetchEvent(identifier, "none"))
                         /\ UNCHANGED <<file_idx, title, class_decl, members, topic_title,
                                        api_by_class>>
                    ELSE /\ members' = members \o ChildMembers(fetched.value[1], topic_title)
                         /\ identifiers' = Tail(identifiers)
                         /\ pc' = AfterIdentifier(Tail(identifiers))
                         /\ occ' = met
                         /\ log' = log \o <<FetchEvent(identifier, "ok"), SleepEvent>>
                         /\ UNCHANGED <<file_idx, title, class_decl, topic_title,
                                        api_by_class>>
    /\ UNCHANGED <<role, topics_read, lines, fn_vars, render_vars>>

\* log entry of an assignment to api_by_class[t].
StoreEvent(t) ==
    [ev |-> "store", file |-> file_idx, topic |-> topics_read, id |-> t,
     net |-> FALSE, result |-> ""]

\* StoreEntry adding the members to those an entry of the same title holds.
StoreEntryMerged(api, t, decl, mems) ==
    [k \in DOMAIN api \cup {t} |->
        IF k = t
        THEN [declaration |-> decl,
              members |-> (IF t \in DOMAIN api THEN api[t].members ELSE <<>>) \o mems]
        ELSE api[k]]

\* Lines 822-825: api_by_class[title] = {"declaration": ..., "members": ...}
StoreEntry(api, t, decl, mems) ==
    [k \in DOMAIN api \cup {t} |->
        IF k = t THEN [declaration |-> decl, members |-> mems] ELSE api[k]]

\* Lines 821-825: the topic loop is over; store the entry if there is one.
AggStore ==
    /\ pc = "topics"
    /\ IF Included(class_decl, members)
       THEN /\ api_by_class' = StoreEntry(api_by_class, title, class_decl, members)
            /\ log' = Append(log, StoreEvent(title))
       ELSE UNCHANGED <<api_by_class, log>>
    /\ NextFile
    /\ UNCHANGED <<role, topics_read, lines, fn_vars, render_vars>>

(***************************************************************************)
(* generate_api_complete: writing the document.                            *)
(***************************************************************************)
\* TopicOrder listing the topics by title.
TopicOrderSorted(mems) == Sorted({mems[i].topic : i \in 1..Len(mems)})

RECURSIVE TopicOrder(_)
\* The keys of members_by_topic in insertion order: the distinct topics of
\* the member records in order of first occurrence.
TopicOrder(mems) ==
    IF mems = <<>> THEN <<>>
    ELSE LET before == TopicOrder(SubSeq(mems, 1, Len(mems) - 1))
             topic == mems[Len(mems)].topic
         IN  IF \E i \in 1..Len(before) : before[i] = topic
             THEN before
             ELSE Append(before, topic)

\* members_by_topic[topic]: the records of that topic, in list order.
MembersOfTopic(mems, topic) == SelectSeq(mems, LAMBDA m : m.topic = topic)

RECURSIVE TopicBlocks(_, _)
\* Lines 871-880 for the topics in order.
TopicBlocks(mems, order) ==
    IF order = <<>> THEN <<>>
    ELSE LET topic == Head(order)
             group == MembersOfTopic(mems, topic)
         IN  (IF topic # "" THEN <<"### " \o topic, "">> ELSE <<>>)
             \o <<Fence \o "swift">>
             \o [i \in 1..Len(group) |-> group[i].declaration]
             \o <<Fence, "">>
             \o TopicBlocks(mems, Tail(order))

\* Lines 852-883 for one class.
ClassSectionLines(class_name, info) ==
    <<"## " \o class_name, "">>
    \o (IF TruthyStr(info.declaration)
        THEN <<Fence \o "swift", info.declaration[1], Fence, "">>
        ELSE <<>>)
    \o TopicBlocks(info.members, TopicOrder(info.members))
    \o <<"---", "">>

\* Line 844-845.
TocLine(class_name) ==
    "- [" \o class_name \o "](#" \o SpacesToHyphens(StrLower(class_name)) \o ")"

RECURSIVE ClassSections(_, _)
ClassSections(api, order) ==
    IF order = <<>> THEN <<>>
    ELSE ClassSectionLines(Head(order), api[Head(order)]) \o ClassSections(api, Tail(order))

HeaderLines ==
    <<"# ScreenCaptureKit API Reference", "",
      "Complete API signatures for all ScreenCaptureKit types.", "", "---", "">>

\* Lines 831-883: the lines written to API-COMPLETE.md.
GenerateLines(api) ==
    LET order == Sorted(DOMAIN api)
    IN  HeaderLines
        \o <<"## Table of Contents", "">>
        \o [i \in 1..Len(order) |-> TocLine(order[i])]
        \o <<"", "---", "">>
        \o ClassSections(api, order)

\* The for-json_file loop is over: generate and write the document.
AggGenerate ==
    /\ pc = "load" /\ file_idx > NumFiles
    /\ lines' = GenerateLines(api_by_class)
    /\ pc' = "done"
    /\ UNCHANGED <<file_idx, title, role, class_decl, members, topics_read, topic_title,
                   identifiers, api_by_class, hist_vars, fn_vars, render_vars>>

(***************************************************************************)
(* Input universe of the renderer.                                         *)
(***************************************************************************)
\* Lists two languages.
DeclObjc ==
    [tokens |-> <<[kind |-> "keyword", text |-> "int "],
                  [kind |-> "identifier", text |-> "w"]>>,
     languages |-> <<"occ", "swift">>]

\* Lists no language: the list is there and empty.
DeclNoLanguage ==
    [tokens |-> <<[kind |-> "identifier", text |-> "w"]>>, languages |-> <<>>]

\* A Python str item of a content list, told from a dict item by its one key.
StrItem(s) == [str |-> s]

InlineRich ==
    <<[type |-> "text", text |-> "See "],
      [type |-> "codeVoice", code |-> "width"],
      [type |-> "reference",
       identifier |-> "doc://com.apple.screencapturekit/documentation/SCStream/width"],
      [type |-> "emphasis", inlineContent |-> InlineHi],
      [type |-> "strong", inlineContent |-> InlineHi],
      [type |-> "link", inlineContent |-> InlineHi, destination |-> "https://a.b"],
      [type |-> "superscript", inlineContent |-> InlineHi],
      [type |-> "aside", content |-> InlineHi],
      [type |-> "image"],
      StrItem("!")>>

RichContentSection ==
    [kind |-> "content",
     content |-> <<[type |-> "heading", inlineContent |-> InlineHi],
                   [type |-> "heading", level |-> 3, inlineContent |-> InlineHi],
                   [type |-> "paragraph", inlineContent |-> InlineRich],
                   [type |-> "codeListing", code |-> <<"let a = 1", "a">>],
                   [type |-> "codeListing", syntax |-> "c", code |-> <<"int a;">>],
                   [type |-> "unorderedList",
                    items |-> <<[content |-> <<[type |-> "paragraph", inlineContent |-> InlineHi],
                                               [type |-> "codeListing"]>>],
                                [name |-> "empty"]>>],
                   [type |-> "table"]>>]

ParametersSection ==
    [kind |-> "parameters",
     parameters |-> <<[name |-> "width",
                       content |-> <<[type |-> "codeListing"],
                                     [type |-> "paragraph", inlineContent |-> InlineHi],
                                     [type |-> "paragraph", inlineContent |-> InlineRich]>>],
                      [content |-> <<>>]>>]

MetaStream ==
    [title |-> "SCStream", role |-> "symbol",
     platforms |-> <<[name |-> "macOS", introducedAt |-> "12.3"],
                     [name |-> "iOS"],
                     [name |-> "Mac Catalyst", introducedAt |-> "18.2"]>>]

\* platforms without a usable entry, and no role.
MetaBare == [title |-> "SCStream", platforms |-> <<[name |-> "iOS"]>>]

\* The references of a document: a summary for IdWidth only.
References ==
    IdWidth :> [title |-> "width", abstract |-> InlineHi]

SeeAlso ==
    <<[title |-> "Related", identifiers |-> <<IdWidth, IdForeign>>],
      [title |-> "Empty"]>>

\* The documents json_to_markdown is applied to, less their topicSections,
\* which the for-topic loop draws when it reads them.
RenderDocs ==
    {EmptyDoc,
     [metadata |-> MetaBare,
      primaryContentSections |->
          <<[kind |-> "declarations", declarations |-> <<DeclVar, DeclNoTokens>>]>>],
     [metadata |-> MetaStream,
      primaryContentSections |->
          <<[kind |-> "declarations", declarations |-> <<DeclObjc, DeclVar>>],
            RichContentSection, ParametersSection, [kind |-> "mentions"],
            [kind |-> "declarations"]>>,
      references |-> References,
      seeAlsoSections |-> SeeAlso],
     [metadata |-> MetaStream,
      primaryContentSections |->
          <<[kind |-> "declarations", declarations |-> <<DeclVar, DeclNoLanguage>>]>>,
      references |-> References]}

\* json_file.stem of the file json_to_markdown is given.
Paths == {"screencapturekit_scstream"}

\* A child document with a declaration and a paragraph.
ChildFull ==
    [metadata |-> MetaProperty,
     primaryContentSections |->
         <<[kind |-> "declarations", declarations |-> <<DeclVar>>], ContentSection>>]

\* What a retrieval made by the renderer meets.
RenderNetOutcomes ==
    {[kind |-> "ok", body |-> d] : d \in {ChildFull, [metadata |-> MetaProperty], EmptyDoc}}
    \cup {[kind |-> k, body |-> EmptyDoc] :
             k \in {"http404", "http500", "urlerror", "badjson", "other"}}

(***************************************************************************)
(* extract_text_from_content and format_child_doc.                         *)
(***************************************************************************)
\* s.split("/")[-1]
LastSegment(s) ==
    LET slashes == {i \in 1..Len(s) : SubSeq(s, i, i) = "/"}
    IN  IF slashes = {} THEN s
        ELSE SubSeq(s, (CHOOSE i \in slashes : \A j \in slashes : j <= i) + 1, Len(s))

RECURSIVE ExtractTextFromContent(_)
\* Lines 165-192: what one item appends to result ("" when nothing).
ItemText(item) ==
    IF DOMAIN item = {"str"} THEN item.str
    ELSE LET item_type == Get(item, "type", "")
             inner == ExtractTextFromContent(Get(item, "inlineContent", <<>>))
         IN  IF item_type = "text" THEN Get(item, "text", "")
             ELSE IF item_type = "codeVoice"
             THEN BackQuote \o Get(item, "code", "") \o BackQuote
             ELSE IF item_type = "reference"
             THEN BackQuote \o LastSegment(Get(item, "identifier", "")) \o BackQuote
             ELSE IF item_type = "emphasis" THEN "*" \o inner \o "*"
             ELSE IF item_type = "strong" THEN "**" \o inner \o "**"
             ELSE IF item_type = "link"
             THEN "[" \o inner \o "](" \o Get(item, "destination", "") \o ")"
             ELSE IF "inlineContent" \in DOMAIN item THEN inner
             ELSE IF "content" \in DOMAIN item
             THEN ExtractTextFromContent(item.content)
             ELSE ""

\* ExtractTextFromContent putting a space between the items.
ExtractTextSpaced(content) ==
    IF content = <<>> THEN ""
    ELSE IF Len(content) = 1 THEN ItemText(Head(content))
    ELSE ItemText(Head(content)) \o " " \o ExtractTextFromContent(Tail(content))

ExtractTextFromContent(content) ==
    IF content = <<>> THEN ""
    ELSE ItemText(Head(content)) \o ExtractTextFromContent(Tail(content))

RECURSIVE FirstDescription(_)
\* Lines 243-248: the text of the first paragraph of content that reduces to
\* a non-empty text, None when there is none.
FirstDescription(content) ==
    IF content = <<>> THEN None
    ELSE LET content_item == Head(content)
             desc == ExtractTextFromContent(Get(content_item, "inlineContent", <<>>))
         IN  IF Get(content_item, "type", "") = "paragraph" /\ desc # ""
             THEN Some(desc)
             ELSE FirstDescription(Tail(content))

RECURSIVE ChildDocLoop(_, _, _)
\* Lines 236-248: the loop over primary, started with the given declaration
\* and description.
ChildDocLoop(primary, declaration, description) ==
    IF primary = <<>> THEN [declaration |-> declaration, description |-> description]
    ELSE LET section == Head(primary)
             kind == Get(section, "kind", "")
             decls == Get(section, "declarations", <<>>)
             found == FirstDescription(Get(section, "content", <<>>))
         IN  IF kind = "declarations" /\ decls # <<>>
             THEN ChildDocLoop(Tail(primary), FormatDeclaration(decls[1]), description)
             ELSE IF kind = "content" /\ found # None
             THEN ChildDocLoop(Tail(primary), declaration, found[1])
             ELSE ChildDocLoop(Tail(primary), declaration, description)

FormatChildDoc(child_doc) ==
    IF child_doc = EmptyDoc THEN ""
    ELSE LET found == ChildDocLoop(Get(child_doc, "primaryContentSections", <<>>), "", "")
         IN  Join((IF found.declaration # ""
                   THEN <<Fence \o "swift", found.declaration, Fence>>
                   ELSE <<>>)
                  \o (IF found.description # "" THEN <<found.description>> ELSE <<>>),
                  "\n")

(***************************************************************************)
(* json_to_markdown.  A block of lines the function builds is a record     *)
(* [raised, lines]: raised is TRUE when building it raises an exception.   *)
(***************************************************************************)
RECURSIVE Repeat(_, _)
\* s * n
Repeat(s, n) == IF n <= 0 THEN "" ELSE s \o Repeat(s, n - 1)

RECURSIVE Concat(_)
\* The concatenation of the lists of seqs in order: what a loop that extends a
\* list once per iteration leaves.
Concat(seqs) ==
    IF seqs = <<>> THEN <<>> ELSE Head(seqs) \o Concat(Tail(seqs))

\* Lines 281-290.
PlatformLines(platforms) ==
    LET usable == SelectSeq(platforms, LAMBDA p :
                      Get(p, "name", "") # "" /\ Get(p, "introducedAt", "") # "")
        avail == [i \in 1..Len(usable) |->
                      usable[i].name \o " " \o usable[i].introducedAt \o "+"]
    IN  IF avail # <<>>
        THEN <<"**Availability:** " \o Join(avail, ", "), "">>
        ELSE <<>>

\* Lines 266-290: the header of the document.
HeadLines(doc, path) ==
    LET metadata == Get(doc, "metadata", <<>>)
        badge == Get(metadata, "role", "")
    IN  <<"# " \o Get(metadata, "title", LastSegment(path)), "">>
        \o (IF badge # "" THEN <<"**Type:** " \o badge, "">> ELSE <<>>)
        \o PlatformLines(Get(metadata, "platforms", <<>>))

RECURSIVE DeclarationLines(_)
\* Lines 300-306: [0] of an empty languages list raises IndexError.
DeclarationLines(decls) ==
    IF decls = <<>> THEN [raised |-> FALSE, lines |-> <<>>]
    ELSE LET decl == Head(decls)
             code == FormatDeclaration(decl)
             languages == Get(decl, "languages", <<"swift">>)
             rest == DeclarationLines(Tail(decls))
         IN  IF languages = <<>> THEN [raised |-> TRUE, lines |-> <<>>]
             ELSE [raised |-> rest.raised,
                   lines |-> <<Fence \o languages[1], code, Fence, "">> \o rest.lines]

\* Lines 332-337: the paragraphs of one list item.
ListItemLines(list_item) ==
    LET paragraphs == SelectSeq(Get(list_item, "content", <<>>),
                                LAMBDA ic : Get(ic, "type", "") = "paragraph")
    IN  [i \in 1..Len(paragraphs) |->
            "- " \o ExtractTextFromContent(Get(paragraphs[i], "inlineContent", <<>>))]

\* Lines 310-338.
ContentItemLines(content_item) ==
    LET content_type == Get(content_item, "type", "")
        text == ExtractTextFromContent(Get(content_item, "inlineContent", <<>>))
        items == Get(content_item, "items", <<>>)
    IN  IF content_type = "heading"
        THEN <<Repeat("#", Get(content_item, "level", 2)) \o " " \o text, "">>
        ELSE IF content_type = "paragraph" THEN <<text, "">>
        ELSE IF content_type = "codeListing"
        THEN <<Fence \o Get(content_item, "syntax", "swift"),
               Join(Get(content_item, "code", <<>>), "\n"), Fence, "">>
        ELSE IF content_type = "unorderedList"
        THEN Concat([i \in 1..Len(items) |-> ListItemLines(items[i])]) \o <<"">>
        ELSE <<>>

\* Lines 344-351.
ParameterLine(param) ==
    LET paragraphs == SelectSeq(Get(param, "content", <<>>),
                                LAMBDA c : Get(c, "type", "") = "paragraph")
        desc == IF paragraphs = <<>> THEN ""
                ELSE ExtractTextFromContent(Get(paragraphs[1], "inlineContent", <<>>))
    IN  "- **" \o Get(param, "name", "") \o "**: " \o desc

\* Lines 295-352: one primary section.
SectionLines(section) ==
    LET kind == Get(section, "kind", "")
        blocks == DeclarationLines(Get(section, "declarations", <<>>))
        content == Get(section, "content", <<>>)
        parameters == Get(section, "parameters", <<>>)
    IN  IF kind = "declarations"
        THEN [raised |-> blocks.raised,
              lines |-> <<"## Declaration", "">> \o blocks.lines]
        ELSE IF kind = "content"
        THEN [raised |-> FALSE,
              lines |-> Concat([i \in 1..Len(content) |->
                                   ContentItemLines(content[i])])]
        ELSE IF kind = "parameters"
        THEN [raised |-> FALSE,
              lines |-> <<"## Parameters", "">>
                        \o [i \in 1..Len(parameters) |-> ParameterLine(parameters[i])]
                        \o <<"">>]
        ELSE [raised |-> FALSE, lines |-> <<>>]

RECURSIVE PrimaryLines(_)
\* Lines 293-352: the loop over primary, given up at the first exception.
PrimaryLines(primary) ==
    IF primary = <<>> THEN [raised |-> FALSE, lines |-> <<>>]
    ELSE LET first == SectionLines(Head(primary))
             rest == PrimaryLines(Tail(primary))
         IN  IF first.raised THEN [raised |-> TRUE, lines |-> <<>>]
             ELSE [raised |-> rest.raised, lines |-> first.lines \o rest.lines]

\* Lines 367-369 and 401-403: the title a reference is shown under.
RefTitle(doc, identifier) ==
    Get(Get(Get(doc, "references", <<>>), identifier, <<>>), "title",
        LastSegment(identifier))

\* Lines 367-380: the subheading of a member and its abstract if not empty.
MemberSummaryLines(doc, identifier) ==
    LET ref == Get(Get(doc, "references", <<>>), identifier, <<>>)
        ref_abstract == Get(ref, "abstract", <<>>)
        abstract_text == IF ref_abstract # <<>>
                         THEN ExtractTextFromContent(ref_abstract)
                         ELSE ""
    IN  <<"#### " \o RefTitle(doc, identifier), "">>
        \o (IF abstract_text # "" THEN <<abstract_text, "">> ELSE <<>>)

\* Expands without the test of include_children.
ExpandsOwnNamespace(flag, identifier) == StartsWith(identifier, OwnPrefix)

\* Expands without the test of the identifier's prefix.
ExpandsAnyIdentifier(flag, identifier) == flag

\* Line 383: the member is expanded with its child document.
Expands(flag, identifier) == flag /\ StartsWith(identifier, OwnPrefix)

\* ChildLines leaving a blank line for a child that is not there.
ChildLinesBlank(child_data) ==
    IF Truthy(child_data) /\ FormatChildDoc(child_data[1]) # ""
    THEN <<FormatChildDoc(child_data[1]), "">>
    ELSE <<"">>

\* Lines 385-389: what the Optional child document adds to md_lines.
ChildLines(child_data) ==
    IF Truthy(child_data) /\ FormatChildDoc(child_data[1]) # ""
    THEN <<FormatChildDoc(child_data[1]), "">>
    ELSE <<>>

\* Lines 395-405.
SeeAlsoLines(doc) ==
    LET see_also == Get(doc, "seeAlsoSections", <<>>)
        listed == Concat([i \in 1..Len(see_also) |->
                             Get(see_also[i], "identifiers", <<>>)])
    IN  IF see_also # <<>>
        THEN <<"## See Also", "">>
             \o [i \in 1..Len(listed) |-> "- " \o RefTitle(doc, listed[i])]
             \o <<"">>
        ELSE <<>>

\* Lines 263-352: the call of json_to_markdown up to the topic sections.
RenderStart ==
    /\ r_pc = "start"
    /\ \E doc \in RenderDocs, path \in Paths, flag \in BOOLEAN :
        LET body == PrimaryLines(Get(doc, "primaryContentSections", <<>>))
        IN  /\ data' = doc
            /\ include_children' = flag
            /\ IF body.raised
               THEN /\ r_pc' = "raised"
                    /\ r_exc' = "IndexError"
                    /\ UNCHANGED <<md_lines, md_plain>>
               ELSE /\ r_pc' = "topics"
                    /\ md_lines' = HeadLines(doc, path) \o body.lines
                    /\ md_plain' = HeadLines(doc, path) \o body.lines
                    /\ UNCHANGED r_exc
    /\ UNCHANGED <<r_topics_read, r_identifiers, r_ret>>
    /\ UNCHANGED <<agg_vars, hist_vars, fn_vars>>

\* What line 392 adds once the identifiers of a topic are done.
TopicEnd(rest) == IF rest = <<>> THEN <<"">> ELSE <<>>

\* Lines 356-363: the for-topic loop takes the next topic group; the first
\* one is preceded by the Topics heading.  r_topics_read and the identifiers
\* handled so far (occ counts every one of them here) bound the document.
RenderTopic ==
    /\ r_pc = "topics" /\ r_topics_read < MaxTopics
    /\ \E topic \in TopicGroups :
        LET ids == Get(topic, "identifiers", <<>>)
            heading == (IF r_topics_read = 0 THEN <<"## Topics", "">> ELSE <<>>)
                       \o <<"### " \o Get(topic, "title", ""), "">>
                       \o TopicEnd(ids)
        IN  /\ SumOver(occ, Ids) + Len(ids) <= MaxFetches
            /\ r_identifiers' = ids
            /\ r_pc' = AfterIdentifier(ids)
            /\ md_lines' = md_lines \o heading
            /\ md_plain' = md_plain \o heading
    /\ r_topics_read' = r_topics_read + 1
    /\ UNCHANGED <<data, include_children, r_exc, r_ret>>
    /\ UNCHANGED <<agg_vars, hist_vars, fn_vars>>

\* Lines 365-392: one iteration of the for-identifier loop.
RenderMember ==
    /\ r_pc = "members"
    /\ LET identifier == Head(r_identifiers)
           rest == Tail(r_identifiers)
           summary == MemberSummaryLines(data, identifier)
       IN  \E net \in RenderNetOutcomes :
             LET fetched == FetchChildDoc(identifier, net)
                 expands == Expands(include_children, identifier)
             IN  /\ (expands /\ UsesNetwork(identifier)) \/ net.kind = "http404"
                 /\ occ' = [occ EXCEPT ![identifier] = @ + 1]
                 /\ IF expands /\ fetched.raised
                    THEN \* the exception leaves json_to_markdown
                         /\ r_pc' = "raised"
                         /\ r_exc' = "Exception"
                         /\ log' = Append(log, FetchEvent(identifier, "raise"))
                         /\ UNCHANGED <<md_lines, md_plain, r_identifiers>>
                    ELSE /\ r_pc' = AfterIdentifier(rest)
                         /\ r_identifiers' = rest
                         /\ md_plain' = md_plain \o summary \o TopicEnd(rest)
                         /\ md_lines' =
                              md_lines \o summary
                              \o (IF expands THEN ChildLines(fetched.value) ELSE <<>>)
                              \o TopicEnd(rest)
                         /\ log' =
                              IF expands
                              THEN log \o <<FetchEvent(identifier,
                                               IF Truthy(fetched.value)
                                               THEN "ok" ELSE "none"),
                                            SleepEvent>>
                              ELSE log
                         /\ UNCHANGED r_exc
    /\ UNCHANGED <<data, include_children, r_topics_read, r_ret>>
    /\ UNCHANGED <<agg_vars, fn_vars>>

\* Lines 395-407: the topic loop is over; See Also, and the joined lines.
RenderReturn ==
    /\ r_pc = "topics"
    /\ r_pc' = "returned"
    /\ md_lines' = md_lines \o SeeAlsoLines(data)
    /\ md_plain' = md_plain \o SeeAlsoLines(data)
    /\ r_ret' = Some(Join(md_lines', "\n"))
    /\ UNCHANGED <<data, include_children, r_topics_read, r_identifiers, r_exc>>
    /\ UNCHANGED <<agg_vars, hist_vars, fn_vars>>

InitRender ==
    /\ r_pc = "start"
    /\ data = EmptyDoc
    /\ include_children = FALSE
    /\ md_lines = <<>>
    /\ md_plain = <<>>
    /\ r_topics_read = 0
    /\ r_identifiers = <<>>
    /\ r_exc = ""
    /\ r_ret = None

InitAgg ==
    /\ pc = "load"
    /\ file_idx = 1
    /\ title = ""
    /\ role = ""
    /\ class_decl = None
    /\ members = <<>>
    /\ topics_read = 0
    /\ topic_title = ""
    /\ identifiers = <<>>
    /\ api_by_class = <<>>
    /\ lines = <<>>
    /\ log = <<>>
    /\ occ = [i \in Ids |-> 0]

InitFn ==
    /\ call = "none"
    /\ arg = <<>>
    /\ ret = <<>>

Init == InitAgg /\ InitFn /\ InitRender

Next ==
    \/ AggLoadError
    \/ AggLoad
    \/ AggTopic
    \/ AggMember
    \/ AggStore
    \/ AggGenerate

\* One run of generate_api_complete over a corpus of NumFiles files.
Spec == Init /\ [][Next]_vars

(***************************************************************************)
(* The helper loops applied on their own to one input.                     *)
(***************************************************************************)
\* Lines 776-782 on the primaryContentSections of one corpus document.
CallClassDecl ==
    /\ call = "none"
    /\ \E primary \in Primaries :
        /\ call' = "class_decl"
        /\ arg' = primary
        /\ ret' = ClassDeclLoop(primary, None)
    /\ UNCHANGED <<agg_vars, hist_vars, render_vars>>

\* Lines 800-817 on one fetched child document.
CallChildMembers ==
    /\ call = "none"
    /\ \E child_data \in ChildDocs \ {EmptyDoc} :
        /\ call' = "child_members"
        /\ arg' = child_data
        /\ ret' = ChildMembers(child_data, "Properties")
    /\ UNCHANGED <<agg_vars, hist_vars, render_vars>>

DeclSectionObjc == [kind |-> "declarations", declarations |-> <<DeclObjc>>]

\* A heading, then a paragraph.
ContentSectionBye ==
    [kind |-> "content",
     content |-> <<[type |-> "heading", text |-> "Overview"],
                   [type |-> "paragraph",
                    inlineContent |-> <<[type |-> "text", text |-> "bye"]>>]>>]

\* Its only paragraph has no inline content.
ContentSectionBlank ==
    [kind |-> "content", content |-> <<[type |-> "paragraph", inlineContent |-> <<>>]>>]

\* The child documents format_child_doc is applied to: {} and documents of up
\* to MaxSections primary sections.
FormatChildInputs ==
    {EmptyDoc}
    \cup {[metadata |-> MetaProperty, primaryContentSections |-> p] :
             p \in SeqsUpTo(Sections \cup {DeclSectionObjc, ContentSectionBye,
                                           ContentSectionBlank}, MaxSections)}

\* Lines 222-258 on one child document.
CallFormatChildDoc ==
    /\ call = "none"
    /\ \E child_doc \in FormatChildInputs :
        /\ call' = "format_child_doc"
        /\ arg' = child_doc
        /\ ret' = FormatChildDoc(child_doc)
    /\ UNCHANGED <<agg_vars, hist_vars, render_vars>>

\* The member records kept in api_by_class: two declarations under two topic
\* titles and under the empty title of an untitled topic group.
MemberRecords ==
    {[name |-> "width", declaration |-> d, kind |-> "property", topic |-> t] :
        d \in {"var w", "int w"}, t \in {"Properties", "Methods", ""}}

\* Lines 852-883 on one entry of api_by_class.
CallClassSection ==
    /\ call = "none"
    /\ \E decl \in {None, Some("var w")} :
       \E mems \in SeqsUpTo(MemberRecords, MaxMembers) :
        /\ call' = "class_section"
        /\ arg' = [declaration |-> decl, members |-> mems]
        /\ ret' = ClassSectionLines("alpha", arg')
    /\ UNCHANGED <<agg_vars, hist_vars, render_vars>>

\* Items of an inline-content list: a text, a code voice, an emphasis, two
\* wrappers without a tag of their own (one holding inlineContent, one holding
\* content), a node with a type and nothing else, and a Python str.
InlineItems ==
    {[type |-> "text", text |-> "See "],
     [type |-> "codeVoice", code |-> "width"],
     [type |-> "emphasis", inlineContent |-> InlineHi],
     [type |-> "superscript", inlineContent |-> InlineHi],
     [type |-> "aside", content |-> InlineHi],
     [type |-> "image"],
     StrItem("!")}

\* Lines 161-194 on two lists and on the two joined.
CallExtractText ==
    /\ call = "none"
    /\ \E a, b \in SeqsUpTo(InlineItems, MaxLen) :
        /\ call' = "extract_text"
        /\ arg' = [a |-> a, b |-> b]
        /\ ret' = [a |-> ExtractTextFromContent(a),
                   b |-> ExtractTextFromContent(b),
                   ab |-> ExtractTextFromContent(a \o b)]
    /\ UNCHANGED <<agg_vars, hist_vars, render_vars>>

Return ==
    /\ call # "none"
    /\ call' = "none"
    /\ arg' = <<>>
    /\ ret' = <<>>
    /\ UNCHANGED <<agg_vars, hist_vars, render_vars>>

NextFn ==
    \/ CallClassDecl
    \/ CallChildMembers
    \/ CallFormatChildDoc
    \/ CallClassSection
    \/ CallExtractText
    \/ Return

SpecFn == Init /\ [][NextFn]_vars

(***************************************************************************)
(* One call of json_to_markdown.                                           *)
(***************************************************************************)
NextRender ==
    \/ RenderStart
    \/ RenderTopic
    \/ RenderMember
    \/ RenderReturn

SpecRender == Init /\ [][NextRender]_vars

(***************************************************************************)
(* Properties of the aggregator.                                           *)
(***************************************************************************)
\* Case-insensitive sort key of a title.
CaseFoldKey(S) == [t \in S |-> CodePoints(StrLower(t))]

\* C1: the table of contents lists the included titles in case-insensitive
\* lexical order, and the per-symbol sections follow in that same order.
C1_TocCaseInsensitiveOrder ==
    pc = "done" =>
        LET order == SortedBy(DOMAIN api_by_class, CaseFoldKey(DOMAIN api_by_class))
        IN  lines = HeaderLines
                    \o <<"## Table of Contents", "">>
                    \o [i \in 1..Len(order) |-> TocLine(order[i])]
                    \o <<"", "---", "">>
                    \o ClassSections(api_by_class, order)

\* The declarations-kind sections of primary that hold a declaration, in order.
DeclSectionsOf(primary) ==
    SelectSeq(primary, LAMBDA section :
        /\ Get(section, "kind", "") = "declarations"
        /\ Get(section, "declarations", <<>>) # <<>>)

\* The first declaration found in a declarations-kind section, if any.
FirstDeclFound(primary) ==
    IF DeclSectionsOf(primary) = <<>> THEN None
    ELSE Some(FormatDeclaration(DeclSectionsOf(primary)[1].declarations[1]))

\* C2: the class-level declaration the aggregator records is the first
\* declaration of the first declarations-kind primary section, whatever the
\* number of declarations-kind sections, and is absent when there is none.
C2_ClassDeclIsFirstFound ==
    call = "class_decl" => ret = FirstDeclFound(arg)

\* C3: the member records of a document never outnumber the own-namespace
\* identifier occurrences met in its topic groups: an occurrence adds at most
\* one record.
C3_AtMostOneRecordPerOccurrence ==
    Len(members) <= SumOver(occ, Ids)

\* C4: between any two retrieval requests of a run there is a pause.
C4_FetchesSeparatedByPause ==
    \A i, j \in 1..Len(log) :
        (/\ i < j
         /\ log[i].ev = "fetch" /\ log[i].net
         /\ log[j].ev = "fetch" /\ log[j].net)
        => \E k \in (i + 1)..(j - 1) : log[k].ev = "sleep"

\* The retrieval calls made for identifier while handling file f.
FetchCount(f, identifier) ==
    Cardinality({i \in 1..Len(log) :
        log[i].ev = "fetch" /\ log[i].file = f /\ log[i].id = identifier})

\* C6 as stated: an identifier the current document lists is retrieved exactly
\* once for that document, in however many topic groups it appears.
C6_FetchedOncePerDocument ==
    \A identifier \in Ids :
        occ[identifier] > 0 => FetchCount(file_idx, identifier) = 1

\* C6 as amended: an own-namespace identifier is retrieved once per occurrence
\* in the topic groups of the document being handled (so twice when it occurs
\* twice), counted per document; a foreign identifier is never retrieved.
C6_FetchedOncePerOccurrence ==
    \A identifier \in Ids :
        FetchCount(file_idx, identifier) = occ[identifier]

\* The same identifier retrieved twice for one file, from two topic groups.
C6_Witness ==
    \E i, j \in 1..Len(log) :
        /\ i < j
        /\ log[i].ev = "fetch" /\ log[j].ev = "fetch"
        /\ log[i].net /\ log[j].net
        /\ log[i].id = log[j].id
        /\ log[i].file = log[j].file
        /\ log[i].topic # log[j].topic

\* The step in which fetch_child_doc reports the child as unavailable.
UnavailableStep ==
    /\ Len(log') = Len(log) + 1
    /\ log'[Len(log')].ev = "fetch"
    /\ log'[Len(log')].result = "none"

\* C9: when a child is reported unavailable, nothing is recorded for it and
\* the pass goes on with the next identifier of the topic (or the next topic)
\* in the state it would be in had the identifier not been listed.
C9_UnavailableMemberOmitted ==
    [][UnavailableStep =>
        /\ members' = members
        /\ identifiers' = Tail(identifiers)
        /\ pc' = (IF Tail(identifiers) = <<>> THEN "topics" ELSE "members")
        /\ UNCHANGED <<file_idx, title, class_decl, topic_title, api_by_class, lines>>]_vars

\* An unavailable child followed by a member of the same document that is
\* retrieved and recorded in the output.
C9_Witness ==
    /\ pc = "done"
    /\ \E i, j \in 1..Len(log) :
        /\ i < j
        /\ log[i].result = "none" /\ log[i].net
        /\ log[j].result = "ok"
        /\ log[i].file = log[j].file
    /\ \E t \in DOMAIN api_by_class : api_by_class[t].members # <<>>

\* The handling of an accepted document ends: stored, found empty, or in error.
DocumentEnds == pc \in {"topics", "members"} /\ pc' = "load"

\* The document being handled has a non-empty class declaration or a member.
HasDeclOrMember ==
    \/ class_decl # None /\ class_decl[1] # ""
    \/ Len(members) >= 1

\* C10 as stated: an accepted document's title is in the output if and only
\* if the document has a non-empty class declaration or a recorded member.
C10_IncludedIffDeclOrMember ==
    [][DocumentEnds => (title \in DOMAIN api_by_class' <=> HasDeclOrMember)]_vars

\* The titles of the table of contents and of the sections of the document.
TocTitles(ls) == {t \in Titles : \E i \in 1..Len(ls) : ls[i] = TocLine(t)}

SectionTitles(ls) == {t \in Titles : \E i \in 1..Len(ls) : ls[i] = "## " \o t}

\* C10 as amended: a title enters api_by_class exactly when the aggregator
\* reaches the end of an accepted document without error having extracted a
\* non-empty class declaration or recorded a member; nothing else adds or
\* removes a title, and the table of contents and the sections of the written
\* document are those of the titles of api_by_class.
C10_IncludedIffStoredWithDeclOrMember ==
    [][/\ DOMAIN api_by_class' =
            IF pc = "topics" /\ pc' = "load" /\ HasDeclOrMember
            THEN DOMAIN api_by_class \cup {title}
            ELSE DOMAIN api_by_class
       /\ pc' = "done" =>
            /\ TocTitles(lines') = DOMAIN api_by_class'
            /\ SectionTitles(lines') = DOMAIN api_by_class']_vars

\* The output holds a symbol included for its members alone, and another
\* title is left out.
C10_Witness ==
    /\ pc = "done"
    /\ Cardinality(DOMAIN api_by_class) = 1
    /\ \E t \in DOMAIN api_by_class :
        /\ ~TruthyStr(api_by_class[t].declaration)
        /\ api_by_class[t].members # <<>>
        /\ TocTitles(lines) = {t}

(***************************************************************************)
(* Properties of the renderer.                                             *)
(***************************************************************************)
\* The fenced block of a declaration: tagged with its first listed language,
\* or with swift when it lists none.
TaggedBlock(decl) ==
    <<Fence \o (IF Get(decl, "languages", <<>>) = <<>>
                THEN "swift"
                ELSE decl.languages[1]),
      FormatDeclaration(decl), Fence, "">>

TaggedBlocks(decls) == Concat([i \in 1..Len(decls) |-> TaggedBlock(decls[i])])

\* C5: json_to_markdown never raises for the shape of its document: every
\* declarations-kind section is rendered as the Declaration subheading and
\* one tagged fenced block per declaration, and the call returns a document.
C5_RendersEveryDeclarationTagged ==
    r_pc # "start" =>
        LET primary == Get(data, "primaryContentSections", <<>>)
        IN  /\ r_exc # "IndexError"
            /\ \A i \in 1..Len(primary) :
                  Get(primary[i], "kind", "") = "declarations" =>
                      SectionLines(primary[i]) =
                          [raised |-> FALSE,
                           lines |-> <<"## Declaration", "">>
                                     \o TaggedBlocks(
                                            Get(primary[i], "declarations", <<>>))]
            /\ r_pc = "returned" => r_ret # None

\* C7: a call with include_children false makes no retrieval call and no
\* pause, whatever the document and the identifiers of its topic groups.
C7_NoRetrievalWithoutExpansion ==
    (r_pc # "start" /\ ~include_children) => log = <<>>

\* A document rendered to its end without expansion though its topic groups
\* list own-namespace identifiers.
C7_Witness ==
    /\ r_pc = "returned"
    /\ ~include_children
    /\ occ[IdWidth] >= 1
    /\ occ[IdWidth] + occ[IdTutorial] >= 2
    /\ log = <<>>

RECURSIVE IsSubseq(_, _)
\* The elements of a occur in b in the same order.
IsSubseq(a, b) ==
    IF a = <<>> THEN TRUE
    ELSE IF b = <<>> THEN FALSE
    ELSE IF Head(a) = Head(b) THEN IsSubseq(Tail(a), Tail(b))
    ELSE IsSubseq(a, Tail(b))

\* The step in which the retrieval of a member's child reports nothing.
ChildFetchFails ==
    /\ r_pc = "members"
    /\ Len(log') = Len(log) + 2
    /\ log'[Len(log) + 1].ev = "fetch"
    /\ log'[Len(log) + 1].result = "none"

\* C8: when the retrieval of a member's child reports the child unavailable,
\* the member is rendered as without expansion (its subheading and its
\* abstract if not empty) and the loop goes on with the next identifier; the
\* lines of the rendering without expansion all appear, in order, in the
\* rendering with expansion, and those lines joined are what is returned.
C8_FailedFetchRendersSummaryOnly ==
    /\ [][ChildFetchFails =>
            /\ md_lines' = md_lines
                            \o MemberSummaryLines(data, Head(r_identifiers))
                            \o (IF Len(r_identifiers) = 1 THEN <<"">> ELSE <<>>)
            /\ SubSeq(md_lines', Len(md_lines) + 1, Len(md_lines'))
                 = SubSeq(md_plain', Len(md_plain) + 1, Len(md_plain'))
            /\ r_identifiers' = Tail(r_identifiers)
            /\ r_pc' = (IF Len(r_identifiers) = 1 THEN "topics" ELSE "members")
            /\ UNCHANGED <<data, include_children, r_exc, r_ret>>]_vars
    /\ [](IsSubseq(md_plain, md_lines))
    /\ [](r_pc = "returned" =>
            /\ r_ret = Some(Join(md_lines, "\n"))
            /\ SubSeq(md_lines, Len(md_lines) - Len(SeeAlsoLines(data)) + 1, Len(md_lines))
                 = SeeAlsoLines(data))

\* A returned document with a See Also section in which a failed retrieval
\* is followed by an expanded member and by another topic group.
C8_Witness ==
    /\ r_pc = "returned"
    /\ include_children
    /\ r_topics_read >= 2
    /\ SeeAlsoLines(data) # <<>>
    /\ \E i, j \in 1..Len(log) :
          /\ i < j
          /\ log[i].ev = "fetch" /\ log[i].net /\ log[i].result = "none"
          /\ log[j].ev = "fetch" /\ log[j].result = "ok"

(***************************************************************************)
(* C11: documents of another role are skipped                              *)
(***************************************************************************)

\* C11: a document whose role is neither symbol nor collectionGroup (an
\* article, or no role at all) is left at the load step: the loop moves to
\* the next file with api_by_class, the output and the fetch history as they
\* were, and the topic and member steps are only ever entered with an
\* accepted role.
C11_SkipsUnacceptedRole ==
    /\ [][(/\ pc = "load"
           /\ file_idx <= NumFiles
           /\ role' \notin {"symbol", "collectionGroup"})
          => /\ pc' = "load"
             /\ file_idx' = file_idx + 1
             /\ UNCHANGED <<api_by_class, lines, log>>]_vars
    /\ [](pc \in {"topics", "members"} => role \in {"symbol", "collectionGroup"})

\* The pass is over, the last document loaded was an article, and an earlier
\* document was stored: the article added no title to the output.
C11_Witness ==
    /\ pc = "done"
    /\ role = "article"
    /\ Cardinality(DOMAIN api_by_class) = 1
    /\ Cardinality(TocTitles(lines)) = 1

(***************************************************************************)
(* C12: what format_child_doc emits                                        *)
(***************************************************************************)
\* The content-kind sections of primary, in order.
ContentSectionsOf(primary) ==
    SelectSeq(primary, LAMBDA section : Get(section, "kind", "") = "content")

\* The reduced text of the first paragraph of the first content-kind section,
\* "" when there is no such section or it has no paragraph.
FirstParagraphText(primary) ==
    IF ContentSectionsOf(primary) = <<>> THEN ""
    ELSE LET paragraphs ==
                 SelectSeq(Get(ContentSectionsOf(primary)[1], "content", <<>>),
                           LAMBDA item : Get(item, "type", "") = "paragraph")
         IN  IF paragraphs = <<>> THEN ""
             ELSE ExtractTextFromContent(Get(paragraphs[1], "inlineContent", <<>>))

\* The text made of a fenced block for the first declaration found and of the
\* first paragraph of the first content-kind section, each left out when
\* there is none or its text is empty.
FirstDeclThenFirstParagraph(child_doc) ==
    IF child_doc = EmptyDoc THEN ""
    ELSE LET primary == Get(child_doc, "primaryContentSections", <<>>)
             first == FirstDeclFound(primary)
         IN  Join((IF first # None /\ first[1] # ""
                   THEN <<Fence \o "swift", first[1], Fence>>
                   ELSE <<>>)
                  \o (IF FirstParagraphText(primary) # ""
                      THEN <<FirstParagraphText(primary)>>
                      ELSE <<>>),
                  "\n")

\* C12: format_child_doc returns the fenced block of the child's first
\* declaration followed by the reduced first paragraph of its first
\* content-kind section, whatever the number of declarations-kind and
\* content-kind sections, and "" for an unavailable child or one with neither.
C12_FirstDeclarationAndParagraph ==
    call = "format_child_doc" => ret = FirstDeclThenFirstParagraph(arg)

(***************************************************************************)
(* C13: identifiers of another namespace are never retrieved               *)
(***************************************************************************)
\* C13: an identifier without the own-namespace prefix causes no retrieval
\* call: the renderer's step for it, with or without expansion, leaves the
\* call history as it was, raises nothing and appends the member's summary
\* lines only; the aggregator's step for it leaves the call history and the
\* member records as they were and stays in the document; every retrieval
\* call ever made is for an identifier with the prefix; and fetch_child_doc
\* on such an identifier returns None, raising nothing, whatever the network
\* would answer.
C13_OnlyOwnNamespaceRetrieved ==
    /\ [][(r_pc = "members" /\ ~StartsWith(Head(r_identifiers), OwnPrefix))
          => /\ log' = log
             /\ r_pc' # "raised"
             /\ r_exc' = r_exc
             /\ md_lines' = md_lines
                             \o MemberSummaryLines(data, Head(r_identifiers))
                             \o (IF Len(r_identifiers) = 1 THEN <<"">> ELSE <<>>)
             /\ r_identifiers' = Tail(r_identifiers)]_vars
    /\ [][(pc = "members" /\ ~StartsWith(Head(identifiers), OwnPrefix))
          => /\ log' = log
             /\ members' = members
             /\ file_idx' = file_idx
             /\ identifiers' = Tail(identifiers)]_vars
    /\ [](\A i \in 1..Len(log) :
            log[i].ev = "fetch" => StartsWith(log[i].id, OwnPrefix))
    /\ [](\A identifier \in Ids : \A net \in RenderNetOutcomes :
            ~StartsWith(identifier, OwnPrefix)
            => FetchChildDoc(identifier, net) = [raised |-> FALSE, value |-> None])

\* A document rendered to its end with expansion: a topic group listed an
\* identifier of another namespace, and a member of the own namespace was
\* retrieved.
C13_Witness ==
    /\ r_pc = "returned"
    /\ include_children
    /\ occ[IdForeign] >= 1
    /\ \E i \in 1..Len(log) : log[i].ev = "fetch" /\ log[i].result = "ok"
    /\ \A i \in 1..Len(log) : log[i].id # IdForeign

(***************************************************************************)
(* C14: topics and members of a class section                              *)
(***************************************************************************)
\* The position at which topic first occurs in mems.
FirstSeen(mems, topic) ==
    CHOOSE i \in 1..Len(mems) :
        /\ mems[i].topic = topic
        /\ \A j \in 1..(i - 1) : mems[j].topic # topic

\* The distinct topics of mems, the one first met earliest first.
TopicsAsEncountered(mems) ==
    LET topics == {mems[i].topic : i \in 1..Len(mems)}
        rank(t) == Cardinality({u \in topics : FirstSeen(mems, u) < FirstSeen(mems, t)}) + 1
    IN  [k \in 1..Cardinality(topics) |-> CHOOSE t \in topics : rank(t) = k]

\* The declarations of the members of topic, in the order of mems.
DeclarationsAsDiscovered(mems, topic) ==
    LET at == {i \in 1..Len(mems) : mems[i].topic = topic}
        nth(k) == CHOOSE i \in at : Cardinality({j \in at : j < i}) = k - 1
    IN  [k \in 1..Cardinality(at) |-> mems[nth(k)].declaration]

\* One subsection: the heading of a titled topic, then one fenced block.
TopicSubsection(mems, topic) ==
    (IF topic # "" THEN <<"### " \o topic, "">> ELSE <<>>)
    \o <<Fence \o "swift">> \o DeclarationsAsDiscovered(mems, topic) \o <<Fence, "">>

\* C14: the section written for a symbol holds, after its heading and its
\* class declaration, one subsection per topic of its member records, in the
\* order in which the topics were first met; a subsection is a single fenced
\* block listing the declarations of all the members of that topic in the
\* order they were recorded, also when other topics' members lie between.
C14_TopicsInEncounterOrder ==
    call = "class_section" =>
        LET order == TopicsAsEncountered(arg.members)
        IN  ret = <<"## alpha", "">>
                  \o (IF arg.declaration # None
                      THEN <<Fence \o "swift", arg.declaration[1], Fence, "">>
                      ELSE <<>>)
                  \o Concat([k \in 1..Len(order) |-> TopicSubsection(arg.members, order[k])])
                  \o <<"---", "">>

\* A section written from three records: two of one topic with different
\* declarations, and between them one of another topic.
C14_Witness ==
    /\ call = "class_section"
    /\ Len(arg.members) = 3
    /\ arg.members[1].topic = "Properties"
    /\ arg.members[2].topic = "Methods"
    /\ arg.members[3].topic = "Properties"
    /\ arg.members[1].declaration # arg.members[3].declaration
    /\ Cardinality({i \in 1..Len(ret) : ret[i] = Fence \o "swift"}) = 2

(***************************************************************************)
(* C15: extract_text_from_content and concatenation                        *)
(***************************************************************************)
\* A dict node with none of the six recognized types and with neither an
\* inlineContent nor a content key.
BareNode(item) ==
    /\ DOMAIN item # {"str"}
    /\ Get(item, "type", "") \notin
         {"text", "codeVoice", "reference", "emphasis", "strong", "link"}
    /\ "inlineContent" \notin DOMAIN item
    /\ "content" \notin DOMAIN item

\* C15: the text of two inline-content lists joined is the text of the first
\* followed, with nothing between, by the text of the second; the text of
\* the empty list, and of a list of nodes that have no recognized type and
\* neither inlineContent nor content, is the empty string.
C15_DistributesOverConcatenation ==
    call = "extract_text" =>
        /\ ret.ab = ret.a \o ret.b
        /\ (\A i \in 1..Len(arg.a) : BareNode(arg.a[i])) => ret.a = ""
        /\ (\A i \in 1..Len(arg.b) : BareNode(arg.b[i])) => ret.b = ""

\* Two lists of two items with non-empty texts; the first list ends in
\* a node that contributes nothing and the second begins with a wrapper.
C15_Witness ==
    /\ call = "extract_text"
    /\ Len(arg.a) = 2 /\ Len(arg.b) = 2
    /\ BareNode(arg.a[2])
    /\ arg.b[1] = [type |-> "aside", content |-> InlineHi]
    /\ ret.a = "See "
    /\ ret.ab = "See hi!"

(***************************************************************************)
(* C16: two documents of one title                                         *)
(***************************************************************************)
\* C16 as stated: when an accepted document is processed to its end and an
\* earlier document left an entry under its title, the entry becomes the
\* declaration and the members of this later document.
C16_LastProcessedDocumentWins ==
    [][(pc = "topics" /\ pc' = "load" /\ title \in DOMAIN api_by_class)
       => api_by_class'[title] = [declaration |-> class_decl, members |-> members]]_vars

\* The number of lines of ls equal to l.
CountLine(ls, l) == Cardinality({i \in 1..Len(ls) : ls[i] = l})

\* C16 as amended: a document processed to its end with a non-empty class
\* declaration or a member sets the single entry of its title to its own
\* declaration and members, whatever an earlier document of that title
\* left there, and changes no other entry; a document that ends with
\* neither, and every other step, leaves api_by_class as it was; each title
\* of api_by_class has one line in the table of contents and one section
\* heading.
C16_LastStoredDocumentWins ==
    /\ [][IF pc = "topics" /\ pc' = "load" /\ HasDeclOrMember
          THEN /\ DOMAIN api_by_class' = DOMAIN api_by_class \cup {title}
               /\ api_by_class'[title] = [declaration |-> class_decl, members |-> members]
               /\ \A k \in DOMAIN api_by_class \ {title} :
                     api_by_class'[k] = api_by_class[k]
          ELSE api_by_class' = api_by_class]_vars
    /\ [](pc = "done" =>
            \A t \in DOMAIN api_by_class :
                /\ CountLine(lines, TocLine(t)) = 1
                /\ CountLine(lines, "## " \o t) = 1)

\* The document is written after two files stored an entry under the same
\* title, the second with a member record.
C16_Witness ==
    /\ pc = "done"
    /\ \E i, j \in 1..Len(log) :
          /\ i < j
          /\ log[i].ev = "store" /\ log[j].ev = "store"
          /\ log[i].id = log[j].id
          /\ log[i].file < log[j].file
          /\ api_by_class[log[j].id].members # <<>>
          /\ CountLine(lines, TocLine(log[j].id)) = 1
          /\ \E k \in (i + 1)..(j - 1) : log[k].ev = "fetch" /\ log[k].result = "ok"
          /\ \E k \in 1..(i - 1) : log[k].ev = "fetch" /\ log[k].result = "ok"

(***************************************************************************)
(* C17: a document that ends in an error                                   *)
(***************************************************************************)
\* The step in which a retrieval call raises inside the file loop.
FetchRaises ==
    /\ pc = "members"
    /\ Len(log') = Len(log) + 1
    /\ log'[Len(log')].ev = "fetch"
    /\ log'[Len(log')].result = "raise"

\* C17: the step in which the handling of a document ends in an exception,
\* at the load or at a retrieval call after any number of member records,
\* leaves api_by_class as it was, drops the records collected so far and
\* moves to the next file; api_by_class changes only at the end of a
\* document's topic loop.
C17_ErrorLeavesAggregateUnchanged ==
    /\ [][FetchRaises
          => /\ api_by_class' = api_by_class
             /\ members' = <<>>
             /\ pc' = "load"
             /\ file_idx' = file_idx + 1]_vars
    /\ [][(pc = "load" /\ file_idx <= NumFiles /\ pc' = "load")
          => /\ api_by_class' = api_by_class
             /\ members' = <<>>
             /\ file_idx' = file_idx + 1]_vars
    /\ [][api_by_class' # api_by_class => pc = "topics"]_vars

\* The document is written after a file whose retrieval call raised once a
\* member had been fetched, and a later file stored an entry: the only title
\* is the later file's, and its entry holds no record of the failed file.
C17_Witness ==
    /\ pc = "done"
    /\ \E i, j, k \in 1..Len(log) :
          /\ i < j /\ j < k
          /\ log[i].ev = "fetch" /\ log[i].result = "ok"
          /\ log[j].ev = "fetch" /\ log[j].result = "raise"
          /\ log[i].file = log[j].file
          /\ log[k].ev = "store" /\ log[k].file > log[j].file
          /\ DOMAIN api_by_class = {log[k].id}
          /\ api_by_class[log[k].id].members = <<>>

====
